---- MODULE Spec2Model ----
(***************************************************************************)
(* Nested-set tree maintenance of nested_set.go: the table is a set of     *)
(* rows, Create and MoveTo are the two public operations.  Every SQL       *)
(* statement of the source is one operator from table to table, applied   *)
(* in the order the source issues it.                                      *)
(***************************************************************************)
EXTENDS Integers, FiniteSets, Sequences, TLC

\* Largest number of rows the table may hold under Spec.
MaxNodes == 4

\* Largest number of rows the table may hold under SpecScopes.
MaxScopedNodes == 3

\* Largest number of rows the table may hold under SpecAny.
MaxAnyNodes == 3

\* Largest number of rows the table may hold under SpecFail.
MaxFailNodes == 3

\* Largest number of rows the table may hold under SpecLoaded.
MaxLoadedNodes == 3

\* Largest number of rows the table may hold under SpecRecord.
MaxRecordNodes == 3

\* Under SpecShift: the number of rows of a table, the largest lft or rgt of
\* a row, and the largest size of a step.
MaxShiftRows == 2
MaxCoord == 4
MaxStep == 2

\* sql.NullInt64 with Valid = false; ids of stored rows start at 1.
NULL == 0

MoveDirectionLeft == -1
MoveDirectionRight == 1
MoveDirectionInner == 0
Directions == {MoveDirectionLeft, MoveDirectionRight, MoveDirectionInner}

\* Values of the column tagged nestedset:"scope".
Scopes == {1, 2}
OneScope == {1}

\* rows: the table.  last: the last call, the store step that failed in it
\* (fault) and whether it returned an error (err).  held: the records a second
\* caller has loaded from the table and not yet passed to its call.
VARIABLES rows, last, held

vars == <<rows, last, held>>

\* The coordinates parseNode copies out of a record, plus the scope value
\* its Where clause is built from.
nodeItem(id, scope, parentID, depth, lft, rgt, childrenCount) ==
  [id |-> id, scope |-> scope, parent_id |-> parentID, depth |-> depth,
   lft |-> lft, rgt |-> rgt, children_count |-> childrenCount]

\* A nil parent argument of Create.
Nil == nodeItem(NULL, 0, NULL, 0, 0, 0, 0)

\* tx.Where(scope = ?): the rows a scoped statement can see.
InScope(table, scope) == {r \in table : r.scope = scope}

Max(S) == CHOOSE x \in S : \A y \in S : y <= x

\* The id the store gives an inserted record whose ID is zero.
NextID(table) == IF table = {} THEN 1 ELSE Max({r.id : r \in table}) + 1

\* Variant of ShiftRgt comparing with > in place of >=.
ShiftRgtMutant(table, scope, setToLft) ==
  {IF r.scope = scope /\ r.rgt > setToLft
     THEN [r EXCEPT !.rgt = r.rgt + 2] ELSE r : r \in table}

\* Variant of ShiftRgt issued without the scope condition.
ShiftRgtUnscoped(table, scope, setToLft) ==
  {IF r.rgt >= setToLft
     THEN [r EXCEPT !.rgt = r.rgt + 2] ELSE r : r \in table}

\* UPDATE ... SET rgt = rgt + 2 WHERE scope AND rgt >= new_lft
ShiftRgt(table, scope, setToLft) ==
  {IF r.scope = scope /\ r.rgt >= setToLft
     THEN [r EXCEPT !.rgt = r.rgt + 2] ELSE r : r \in table}

\* UPDATE ... SET lft = lft + 2 WHERE scope AND lft > new_lft.  The statement
\* is chained on the handle the rgt update was chained on; a condition that
\* handle keeps from it (rgt >= new_lft, read after the rgt update) selects
\* the same rows wherever lft < rgt.
ShiftLft(table, scope, setToLft) ==
  {IF r.scope = scope /\ r.lft > setToLft
     THEN [r EXCEPT !.lft = r.lft + 2] ELSE r : r \in table}

\* UPDATE ... SET children_count = children_count + 1 WHERE id = parent.id
IncChildrenCount(table, parentID) ==
  {IF r.id = parentID
     THEN [r EXCEPT !.children_count = r.children_count + 1] ELSE r : r \in table}

\* Variant of RootLft reading the largest rgt of the whole table.
RootLftMutant(table, scope) ==
  IF table = {} THEN 1 ELSE Max({r.rgt : r \in table}) + 1

\* Variant of RootLft leaving one value free after the largest rgt.
RootLftGap(table, scope) ==
  IF InScope(table, scope) = {} THEN 1
  ELSE Max({r.rgt : r \in InScope(table, scope)}) + 2

\* SELECT rgt ... WHERE scope ORDER BY rgt DESC LIMIT 1, and the default
\* [1 - 2] kept when the query returns no row.
RootLft(table, scope) ==
  IF InScope(table, scope) = {} THEN 1
  ELSE Max({r.rgt : r \in InScope(table, scope)}) + 1

\* Create(db, source, parent): the table after the transaction commits.
\* source keeps the scope, parent_id and children_count its caller set;
\* lft, rgt and depth are overwritten before the insert.
Create(table, source, parent) ==
  LET id == NextID(table) IN
  IF parent = Nil
  THEN LET setToLft == RootLft(table, source.scope) IN
       table \cup {nodeItem(id, source.scope, source.parent_id, 0,
                            setToLft, setToLft + 1, source.children_count)}
  ELSE LET setToLft == parent.rgt
           setToRgt == parent.rgt + 1
           setDepth == parent.depth + 1
           t1 == ShiftRgt(table, source.scope, setToLft)
           t2 == ShiftLft(t1, source.scope, setToLft)
           t3 == IncChildrenCount(t2, parent.id)
       IN t3 \cup {nodeItem(id, source.scope, source.parent_id, setDepth,
                            setToLft, setToRgt, source.children_count)}

\* The statements of MoveTo run on db.Table(tableName): the scoped handle
\* parseNode returned is overwritten (line 200), so each operator below
\* ranges over every row of the table.

\* Variant of moveAffected adding step to both bounds of every selected row.
moveAffectedMutant(table, gte, lte, step) ==
  {IF (r.lft >= gte /\ r.lft <= lte) \/ (r.rgt >= gte /\ r.rgt <= lte)
     THEN [r EXCEPT !.lft = r.lft + step, !.rgt = r.rgt + step]
     ELSE r : r \in table}

\* Variant of moveAffected selecting WHERE lft BETWEEN gte AND lte only.
moveAffectedLftOnly(table, gte, lte, step) ==
  {IF r.lft >= gte /\ r.lft <= lte
     THEN [r EXCEPT !.lft = IF r.lft >= gte THEN r.lft + step ELSE r.lft,
                    !.rgt = IF r.rgt <= lte THEN r.rgt + step ELSE r.rgt]
     ELSE r : r \in table}

\* UPDATE ... SET lft = CASE WHEN lft >= gte THEN lft + step ELSE lft END,
\*                rgt = CASE WHEN rgt <= lte THEN rgt + step ELSE rgt END
\* WHERE (lft BETWEEN gte AND lte) OR (rgt BETWEEN gte AND lte)
moveAffected(table, gte, lte, step) ==
  {IF (r.lft >= gte /\ r.lft <= lte) \/ (r.rgt >= gte /\ r.rgt <= lte)
     THEN [r EXCEPT !.lft = IF r.lft >= gte THEN r.lft + step ELSE r.lft,
                    !.rgt = IF r.rgt <= lte THEN r.rgt + step ELSE r.rgt]
     ELSE r : r \in table}

\* Variant of moveTarget changing the depth of the subtree root only.
moveTargetMutant(table, targetID, targetIds, step, depthChange, newParentID) ==
  LET t1 == IF targetIds # {}
              THEN {IF r.id \in targetIds
                      THEN [r EXCEPT !.lft = r.lft + step,
                                     !.rgt = r.rgt + step,
                                     !.depth = IF r.id = targetID
                                                 THEN r.depth + depthChange
                                                 ELSE r.depth]
                      ELSE r : r \in table}
              ELSE table
  IN {IF r.id = targetID THEN [r EXCEPT !.parent_id = newParentID] ELSE r : r \in t1}

\* UPDATE ... SET lft = lft + step, rgt = rgt + step, depth = depth + change
\* WHERE id IN (targetIds), issued when targetIds is not empty.
SubtreeShift(table, targetIds, step, depthChange) ==
  IF targetIds # {}
  THEN {IF r.id \in targetIds
          THEN [r EXCEPT !.lft = r.lft + step,
                         !.rgt = r.rgt + step,
                         !.depth = r.depth + depthChange]
          ELSE r : r \in table}
  ELSE table

\* Variant of Reparent that also writes parent_id on the children of the row.
ReparentMutant(table, targetID, newParentID) ==
  {IF r.id = targetID \/ r.parent_id = targetID
     THEN [r EXCEPT !.parent_id = newParentID] ELSE r : r \in table}

\* UPDATE ... SET parent_id = ? WHERE id = ?
Reparent(table, targetID, newParentID) ==
  {IF r.id = targetID THEN [r EXCEPT !.parent_id = newParentID] ELSE r : r \in table}

\* moveTarget: the subtree update, then the parent_id update.
moveTarget(table, targetID, targetIds, step, depthChange, newParentID) ==
  Reparent(SubtreeShift(table, targetIds, step, depthChange), targetID, newParentID)

\* SELECT count(*) WHERE parent_id = ?; UPDATE children_count WHERE id = ?
SetChildrenCount(table, parentID) ==
  LET cnt == Cardinality({r \in table : r.parent_id = parentID})
  IN {IF r.id = parentID THEN [r EXCEPT !.children_count = cnt] ELSE r : r \in table}

\* Variant of syncChildrenCount recounting the new parent only.
syncChildrenCountMutant(table, oldParentID, newParentID) ==
  IF newParentID # NULL THEN SetChildrenCount(table, newParentID) ELSE table

\* The old parent is recounted first, then the new one, each if Valid.
syncChildrenCount(table, oldParentID, newParentID) ==
  LET t1 == IF oldParentID # NULL THEN SetChildrenCount(table, oldParentID) ELSE table
  IN IF newParentID # NULL THEN SetChildrenCount(t1, newParentID) ELSE t1

\* Variant of moveToRightOfPosition whose rightward subtree step is off by one.
moveToRightOfPositionMutant(table, targetNode, position, depthChange, newParentID) ==
  LET oldParentID == targetNode.parent_id
      targetRight == targetNode.rgt
      targetLeft == targetNode.lft
      targetWidth == targetRight - targetLeft + 1
      targetIds == {r.id : r \in {x \in table : x.lft >= targetLeft /\ x.rgt <= targetRight}}
      moveStep == position - targetLeft + 1
  IN IF moveStep = 0 THEN table
     ELSE LET affectedGte == IF moveStep < 0 THEN position + 1 ELSE targetRight + 1
              affectedLte == IF moveStep < 0 THEN targetLeft - 1 ELSE position
              affectedStep == IF moveStep < 0 THEN targetWidth ELSE targetWidth * (-1)
              step == IF moveStep < 0 THEN moveStep ELSE moveStep - targetWidth + 1
              t1 == moveAffected(table, affectedGte, affectedLte, affectedStep)
              t2 == moveTarget(t1, targetNode.id, targetIds, step, depthChange, newParentID)
          IN syncChildrenCount(t2, oldParentID, newParentID)

\* The transaction of moveToRightOfPosition: the table after it commits.
moveToRightOfPosition(table, targetNode, position, depthChange, newParentID) ==
  LET oldParentID == targetNode.parent_id
      targetRight == targetNode.rgt
      targetLeft == targetNode.lft
      targetWidth == targetRight - targetLeft + 1
      targetIds == {r.id : r \in {x \in table : x.lft >= targetLeft /\ x.rgt <= targetRight}}
      moveStep == position - targetLeft + 1
  IN IF moveStep = 0 THEN table
     ELSE LET affectedGte == IF moveStep < 0 THEN position + 1 ELSE targetRight + 1
              affectedLte == IF moveStep < 0 THEN targetLeft - 1 ELSE position
              affectedStep == IF moveStep < 0 THEN targetWidth ELSE targetWidth * (-1)
              step == IF moveStep < 0 THEN moveStep ELSE moveStep - targetWidth
              t1 == moveAffected(table, affectedGte, affectedLte, affectedStep)
              t2 == moveTarget(t1, targetNode.id, targetIds, step, depthChange, newParentID)
          IN syncChildrenCount(t2, oldParentID, newParentID)

\* Variant of MoveTo taking to.lft as the position of MoveDirectionLeft.
MoveToMutant(table, node, to, direction) ==
  IF direction = MoveDirectionLeft \/ direction = MoveDirectionRight
  THEN moveToRightOfPosition(table, node,
         IF direction = MoveDirectionLeft THEN to.lft ELSE to.rgt,
         to.depth - node.depth, to.parent_id)
  ELSE moveToRightOfPosition(table, node, to.lft,
         to.depth + 1 - node.depth, to.id)

\* Variant of moveArgs whose MoveDirectionInner depth change misses the + 1.
moveArgsMutant(node, to, direction) ==
  IF direction = MoveDirectionLeft \/ direction = MoveDirectionRight
  THEN [position |-> IF direction = MoveDirectionLeft THEN to.lft - 1 ELSE to.rgt,
        depthChange |-> to.depth - node.depth,
        newParentID |-> to.parent_id]
  ELSE [position |-> to.lft,
        depthChange |-> to.depth - node.depth,
        newParentID |-> to.id]

\* right, depthChange and newParentID as MoveTo computes them from the
\* caller's records of node and reference.
moveArgs(node, to, direction) ==
  IF direction = MoveDirectionLeft \/ direction = MoveDirectionRight
  THEN [position |-> IF direction = MoveDirectionLeft THEN to.lft - 1 ELSE to.rgt,
        depthChange |-> to.depth - node.depth,
        newParentID |-> to.parent_id]
  ELSE [position |-> to.lft,
        depthChange |-> to.depth + 1 - node.depth,
        newParentID |-> to.id]

\* MoveTo(db, node, to, direction): node and to are the caller's records.
MoveTo(table, node, to, direction) ==
  LET a == moveArgs(node, to, direction)
  IN moveToRightOfPosition(table, node, a.position, a.depthChange, a.newParentID)

(***************************************************************************)
(* The same statements with the store failing at one of them.  A run ends  *)
(* with the table its statements have written so far, the error it returns *)
(* and the fault that struck; db.Transaction rolls the table back when the *)
(* closure returns an error.                                               *)
(***************************************************************************)
Done(table, fault) == [table |-> table, err |-> FALSE, fault |-> fault]
Failed(table, fault) == [table |-> table, err |-> TRUE, fault |-> fault]

\* Variant of Transaction that keeps what the closure wrote before its error.
TransactionMutant(before, res) == res

\* db.Transaction(fn): commit when fn returns nil, roll back when it returns
\* an error, which is passed on to the caller.
Transaction(before, res) ==
  IF res.err THEN [res EXCEPT !.table = before] ELSE res

\* The closure of Create.  The error of the max-rgt query is not returned:
\* only rst.Error == nil is tested, so a failed query keeps the default 1.
createSteps(table, source, parent, fault) ==
  LET id == NextID(table) IN
  IF parent = Nil
  THEN LET setToLft == IF fault = "maxRgt" THEN 1
                       ELSE RootLft(table, source.scope)
           new == nodeItem(id, source.scope, source.parent_id, 0,
                           setToLft, setToLft + 1, source.children_count)
       IN IF fault = "insert" THEN Failed(table, fault)
          ELSE Done(table \cup {new}, IF fault = "maxRgt" THEN fault ELSE "none")
  ELSE LET setToLft == parent.rgt
           t1 == ShiftRgt(table, source.scope, setToLft)
           t2 == ShiftLft(t1, source.scope, setToLft)
           t3 == IncChildrenCount(t2, parent.id)
           new == nodeItem(id, source.scope, source.parent_id, parent.depth + 1,
                           setToLft, parent.rgt + 1, source.children_count)
       IN IF fault = "shiftRgt" THEN Failed(table, fault)
          ELSE IF fault = "shiftLft" THEN Failed(t1, fault)
          ELSE IF fault = "incCount" THEN Failed(t2, fault)
          ELSE IF fault = "insert" THEN Failed(t3, fault)
          ELSE Done(t3 \cup {new}, "none")

\* Create with the store failing at the named statement.
CreateWithFault(table, source, parent, fault) ==
  Transaction(table, createSteps(table, source, parent, fault))

\* The closure of moveToRightOfPosition.
moveSteps(table, targetNode, position, depthChange, newParentID, fault) ==
  LET oldParentID == targetNode.parent_id
      targetRight == targetNode.rgt
      targetLeft == targetNode.lft
      targetWidth == targetRight - targetLeft + 1
      targetIds == {r.id : r \in {x \in table : x.lft >= targetLeft /\ x.rgt <= targetRight}}
      moveStep == position - targetLeft + 1
      affectedGte == IF moveStep < 0 THEN position + 1 ELSE targetRight + 1
      affectedLte == IF moveStep < 0 THEN targetLeft - 1 ELSE position
      affectedStep == IF moveStep < 0 THEN targetWidth ELSE targetWidth * (-1)
      step == IF moveStep < 0 THEN moveStep ELSE moveStep - targetWidth
      t1 == moveAffected(table, affectedGte, affectedLte, affectedStep)
      t2 == SubtreeShift(t1, targetIds, step, depthChange)
      t3 == Reparent(t2, targetNode.id, newParentID)
      t4 == IF oldParentID # NULL THEN SetChildrenCount(t3, oldParentID) ELSE t3
      t5 == IF newParentID # NULL THEN SetChildrenCount(t4, newParentID) ELSE t4
  IN IF fault = "pluck" THEN Failed(table, fault)
     ELSE IF moveStep = 0 THEN Done(table, "none")
     ELSE IF fault = "moveAffected" THEN Failed(table, fault)
     ELSE IF fault = "subtree" /\ targetIds # {} THEN Failed(t1, fault)
     ELSE IF fault = "reparent" THEN Failed(t2, fault)
     ELSE IF fault = "syncOld" /\ oldParentID # NULL THEN Failed(t3, fault)
     ELSE IF fault = "syncNew" /\ newParentID # NULL THEN Failed(t4, fault)
     ELSE Done(t5, "none")

\* MoveTo with the store failing at the named statement.
MoveToWithFault(table, node, to, direction, fault) ==
  LET a == moveArgs(node, to, direction)
  IN Transaction(table,
       moveSteps(table, node, a.position, a.depthChange, a.newParentID, fault))

\* The statements of Create without and with a parent, and of MoveTo.
CreateRootFaults == {"maxRgt", "insert"}
CreateChildFaults == {"shiftRgt", "shiftLft", "incCount", "insert"}
MoveFaults == {"pluck", "moveAffected", "subtree", "reparent", "syncOld", "syncNew"}

\* The stored row with the given id.
Row(table, id) == CHOOSE r \in table : r.id = id

\* Ids met by following parent_id upwards from the row id, at most fuel steps.
RECURSIVE AncestorIDs(_, _, _)
AncestorIDs(table, id, fuel) ==
  IF fuel = 0 \/ ~(\E r \in table : r.id = id) THEN {}
  ELSE LET p == Row(table, id).parent_id
       IN IF p = NULL THEN {} ELSE {p} \cup AncestorIDs(table, p, fuel - 1)

\* b is a descendant of a via the parent_id chain.
IsDescendant(table, b, a) == a.id \in AncestorIDs(table, b.id, Cardinality(table))

Descendants(table, a) == {b \in table : IsDescendant(table, b, a)}

\* The record a caller passes to Create: only scope and parent_id are set.
NewRecord(scope, parentID) == nodeItem(0, scope, parentID, 0, 0, 0, 0)

\* A Move whose reference is in the scope of the node and outside its subtree.
WellFormedMove(table, n, t) ==
  /\ n.scope = t.scope
  /\ n.id # t.id
  /\ ~IsDescendant(table, t, n)

\* A Move is followed only while every coordinate stays in 1..2n and every
\* depth in 0..n, n the number of rows: the ranges n well-nested rows occupy.
Bounded(table) ==
  \A r \in table : /\ r.lft >= 1 /\ r.lft <= 2 * Cardinality(table)
                   /\ r.rgt >= 1 /\ r.rgt <= 2 * Cardinality(table)
                   /\ r.depth >= 0 /\ r.depth <= Cardinality(table)

\* The second caller holds no records.
NoCall == [op |-> "none"]

Init ==
  /\ rows = {}
  /\ last = [op |-> "Init", node |-> NULL, ref |-> NULL, dir |-> 0,
             fault |-> "none", err |-> FALSE]
  /\ held = NoCall

\* Create(db, &record, nil) by a caller of the given scope.
CreateRoot(scope) ==
  /\ rows' = Create(rows, NewRecord(scope, NULL), Nil)
  /\ last' = [op |-> "Create", node |-> NextID(rows), ref |-> NULL, dir |-> 0,
              fault |-> "none", err |-> FALSE]
  /\ UNCHANGED held

\* Create(db, &record, &parent): parent carries its stored coordinates, the
\* record the parent's scope and id.
CreateChild(parent) ==
  /\ rows' = Create(rows, NewRecord(parent.scope, parent.id), parent)
  /\ last' = [op |-> "Create", node |-> NextID(rows), ref |-> parent.id, dir |-> 0,
              fault |-> "none", err |-> FALSE]
  /\ UNCHANGED held

\* MoveTo(db, &node, &to, direction) with records carrying stored coordinates.
Move(node, to, direction) ==
  /\ rows' = MoveTo(rows, node, to, direction)
  /\ Bounded(rows')
  /\ last' = [op |-> "Move", node |-> node.id, ref |-> to.id, dir |-> direction,
              fault |-> "none", err |-> FALSE]
  /\ UNCHANGED held

\* What last records of a call the store failed in: a call that returned an
\* error names no row.
Outcome(op, node, ref, dir, res) ==
  IF res.err
  THEN [op |-> op, node |-> NULL, ref |-> NULL, dir |-> 0,
        fault |-> res.fault, err |-> TRUE]
  ELSE [op |-> op, node |-> node, ref |-> ref, dir |-> dir,
        fault |-> res.fault, err |-> FALSE]

\* Create(db, &record, nil) with the store failing at one statement.  In a
\* scope without rows the max-rgt query ends with ErrRecordNotFound by
\* itself, so its failure is injected in a scope that has rows.
CreateRootFault(scope, fault) ==
  LET res == CreateWithFault(rows, NewRecord(scope, NULL), Nil, fault)
  IN /\ fault = "maxRgt" => InScope(rows, scope) # {}
     /\ res.fault # "none"
     /\ rows' = res.table
     /\ last' = Outcome("Create", NextID(rows), NULL, 0, res)
     /\ UNCHANGED held

\* Create(db, &record, &parent) with the store failing at one statement.
CreateChildFault(parent, fault) ==
  LET res == CreateWithFault(rows, NewRecord(parent.scope, parent.id), parent, fault)
  IN /\ res.fault # "none"
     /\ rows' = res.table
     /\ last' = Outcome("Create", NextID(rows), parent.id, 0, res)
     /\ UNCHANGED held

\* MoveTo(db, &node, &to, direction) with the store failing at one statement.
MoveFault(node, to, direction, fault) ==
  LET res == MoveToWithFault(rows, node, to, direction, fault)
  IN /\ res.fault # "none"
     /\ rows' = res.table
     /\ Bounded(rows')
     /\ last' = Outcome("Move", node.id, to.id, direction, res)
     /\ UNCHANGED held

\* A second caller loads the parent record it will pass to Create.
LoadCreate(parent) ==
  /\ held = NoCall
  /\ held' = [op |-> "Create", parent |-> parent]
  /\ UNCHANGED <<rows, last>>

\* A second caller loads the node and reference records it will pass to
\* MoveTo.
LoadMove(node, to, direction) ==
  /\ held = NoCall
  /\ held' = [op |-> "Move", node |-> node, to |-> to, dir |-> direction]
  /\ UNCHANGED <<rows, last>>

\* The table after the held call runs on it with the given records: parseNode
\* copies lft, rgt, depth and parent_id from the records it is passed and
\* neither Create nor MoveTo reads them again from the table.
HeldResult(table, call) ==
  IF call.op = "Create"
  THEN Create(table, NewRecord(call.parent.scope, call.parent.id), call.parent)
  ELSE MoveTo(table, call.node, call.to, call.dir)

\* The second caller runs its call, as one transaction, with the records it
\* loaded.
RunHeld ==
  /\ held # NoCall
  /\ rows' = HeldResult(rows, held)
  /\ Bounded(rows')
  /\ last' = IF held.op = "Create"
             THEN [op |-> "Create", node |-> NextID(rows), ref |-> held.parent.id,
                   dir |-> 0, fault |-> "none", err |-> FALSE]
             ELSE [op |-> "Move", node |-> held.node.id, ref |-> held.to.id,
                   dir |-> held.dir, fault |-> "none", err |-> FALSE]
  /\ held' = NoCall

\* The parent_id values a caller's new record may carry: none, or the id of
\* a stored row.
CarriedParentIDs == {NULL} \cup {r.id : r \in rows}

\* Create(db, &record, nil) with a record carrying the parent_id carried:
\* Create assigns lft, rgt and depth to the record (lines 161-180) and inserts
\* it with the parent_id it came with.
CreateRootCarrying(scope, carried) ==
  /\ rows' = Create(rows, NewRecord(scope, carried), Nil)
  /\ last' = [op |-> "Create", node |-> NextID(rows), ref |-> NULL, dir |-> 0,
              fault |-> "none", err |-> FALSE]
  /\ UNCHANGED held

\* Create(db, &record, &parent) with a record carrying the parent_id carried.
CreateChildCarrying(parent, carried) ==
  /\ rows' = Create(rows, NewRecord(parent.scope, carried), parent)
  /\ last' = [op |-> "Create", node |-> NextID(rows), ref |-> parent.id, dir |-> 0,
              fault |-> "none", err |-> FALSE]
  /\ UNCHANGED held

\* The rows with lft < rgt that id may name, within the coordinate bound.
ShiftRows(id) ==
  {nodeItem(id, 1, NULL, 0, l, r, 0) : l \in 1..MaxCoord, r \in 1..MaxCoord} \ 
    {x \in {nodeItem(id, 1, NULL, 0, l, r, 0) : l \in 1..MaxCoord, r \in 1..MaxCoord} :
       x.lft >= x.rgt}

\* The tables of at most n rows with ids 1..n, each with lft < rgt.
RECURSIVE ShiftTables(_)
ShiftTables(n) ==
  IF n = 0 THEN {{}}
  ELSE LET rest == ShiftTables(n - 1)
       IN rest \cup {t \cup {x} : t \in rest, x \in ShiftRows(n)}

\* Any table of rows with lft < rgt, no call made yet.
InitShift ==
  /\ rows \in ShiftTables(MaxShiftRows)
  /\ last = [op |-> "Init", node |-> NULL, ref |-> NULL, dir |-> 0,
             fault |-> "none", err |-> FALSE]
  /\ held = NoCall

\* moveAffected(tx, targetNode, gte, lte, step) applied to the initial table;
\* last keeps the arguments and the table the call was given.
Shift(gte, lte, step) ==
  /\ last.op = "Init"
  /\ rows' = moveAffected(rows, gte, lte, step)
  /\ last' = [op |-> "Shift", node |-> NULL, ref |-> NULL, dir |-> 0,
              fault |-> "none", err |-> FALSE,
              gte |-> gte, lte |-> lte, step |-> step, before |-> rows]
  /\ UNCHANGED held

\* The nested-set invariants of one scope's rows.
LeftBeforeRight(table) == \A r \in table : r.lft < r.rgt

Disjoint(a, b) == a.rgt < b.lft \/ b.rgt < a.lft

\* b's interval lies strictly inside a's.
Inside(b, a) == a.lft < b.lft /\ b.rgt < a.rgt

NestedIntervals(table) ==
  \A a \in table, b \in table :
    a.id # b.id =>
      /\ Disjoint(a, b) \/ Inside(a, b) \/ Inside(b, a)
      /\ Inside(b, a) <=> IsDescendant(table, b, a)

WidthCountsDescendants(table) ==
  \A r \in table : r.rgt - r.lft = 2 * Cardinality(Descendants(table, r)) + 1

DepthFollowsParent(table) ==
  \A r \in table :
    IF r.parent_id = NULL THEN r.depth = 0
    ELSE \E p \in table : p.id = r.parent_id /\ r.depth = p.depth + 1

ChildrenCounted(table) ==
  \A r \in table :
    r.children_count = Cardinality({c \in table : c.parent_id = r.id})

WellNested(table) ==
  /\ LeftBeforeRight(table)
  /\ NestedIntervals(table)
  /\ WidthCountsDescendants(table)
  /\ DepthFollowsParent(table)
  /\ ChildrenCounted(table)

\* One scope, well-formed calls.
Next ==
  \/ Cardinality(rows) < MaxNodes /\ \E s \in OneScope : CreateRoot(s)
  \/ Cardinality(rows) < MaxNodes /\ \E p \in rows : CreateChild(p)
  \/ \E n \in rows, t \in rows, d \in Directions :
       WellFormedMove(rows, n, t) /\ Move(n, t, d)

Spec == Init /\ [][Next]_vars

\* Two scopes in one table, well-formed calls; a Move is followed in a scope
\* whose rows are well nested.
NextScopes ==
  \/ Cardinality(rows) < MaxScopedNodes /\ \E s \in Scopes : CreateRoot(s)
  \/ Cardinality(rows) < MaxScopedNodes /\ \E p \in rows : CreateChild(p)
  \/ \E s \in Scopes :
       /\ WellNested(InScope(rows, s))
       /\ \E n \in InScope(rows, s), t \in InScope(rows, s), d \in Directions :
            WellFormedMove(rows, n, t) /\ Move(n, t, d)

SpecScopes == Init /\ [][NextScopes]_vars

\* The row id lies on a cycle of parent_id links.
OnCycle(table, id) == id \in AncestorIDs(table, id, Cardinality(table))

\* One scope, any node and reference of the scope, the node itself and the
\* rows of its subtree included.  Calls are followed from a well-nested table
\* and, one call deep, from the table a Move into the node's own subtree left.
NextAny ==
  \/ Cardinality(rows) < MaxAnyNodes /\ \E s \in OneScope : CreateRoot(s)
  \/ Cardinality(rows) < MaxAnyNodes /\ \E p \in rows : CreateChild(p)
  \/ LET sound == WellNested(rows)
         fresh == last.op = "Move" /\ OnCycle(rows, last.node)
     IN \E n \in rows, t \in rows, d \in Directions :
          /\ IF sound THEN TRUE ELSE fresh
          /\ Move(n, t, d)

SpecAny == Init /\ [][NextAny]_vars

\* One scope, well-formed calls, the store failing at one statement of a
\* call or at none; calls are followed from a well-nested table.
NextFail ==
  \/ /\ Cardinality(rows) < MaxFailNodes
     /\ WellNested(rows)
     /\ \E s \in OneScope : CreateRoot(s)
  \/ /\ Cardinality(rows) < MaxFailNodes
     /\ WellNested(rows)
     /\ \E p \in rows : CreateChild(p)
  \/ /\ WellNested(rows)
     /\ \E n \in rows, t \in rows, d \in Directions :
          WellFormedMove(rows, n, t) /\ Move(n, t, d)
  \/ /\ Cardinality(rows) < MaxFailNodes
     /\ WellNested(rows)
     /\ \E s \in OneScope, f \in CreateRootFaults : CreateRootFault(s, f)
  \/ /\ Cardinality(rows) < MaxFailNodes
     /\ WellNested(rows)
     /\ \E p \in rows, f \in CreateChildFaults : CreateChildFault(p, f)
  \/ /\ WellNested(rows)
     /\ \E n \in rows, t \in rows, d \in Directions, f \in MoveFaults :
          WellFormedMove(rows, n, t) /\ MoveFault(n, t, d, f)

SpecFail == Init /\ [][NextFail]_vars

\* Two callers on one scope, every call one serialized transaction.  The
\* first caller loads its records and runs its call in one step; the second
\* loads the records of a well-formed call, and runs the call in a later
\* step.  Calls are followed from a well-nested table.
NextLoaded ==
  \/ /\ Cardinality(rows) < MaxLoadedNodes
     /\ WellNested(rows)
     /\ \E s \in OneScope : CreateRoot(s)
  \/ /\ Cardinality(rows) < MaxLoadedNodes
     /\ WellNested(rows)
     /\ \E p \in rows : CreateChild(p)
  \/ /\ WellNested(rows)
     /\ \E n \in rows, t \in rows, d \in Directions :
          WellFormedMove(rows, n, t) /\ Move(n, t, d)
  \/ /\ WellNested(rows)
     /\ \E p \in rows : LoadCreate(p)
  \/ /\ WellNested(rows)
     /\ \E n \in rows, t \in rows, d \in Directions :
          WellFormedMove(rows, n, t) /\ LoadMove(n, t, d)
  \/ /\ WellNested(rows)
     /\ held.op = "Create" => Cardinality(rows) < MaxLoadedNodes
     /\ RunHeld

SpecLoaded == Init /\ [][NextLoaded]_vars

\* One scope, well-formed calls, the new record of a Create carrying any
\* parent_id; calls are followed from a well-nested table.
NextRecord ==
  \/ /\ Cardinality(rows) < MaxRecordNodes
     /\ WellNested(rows)
     /\ \E s \in OneScope, c \in CarriedParentIDs : CreateRootCarrying(s, c)
  \/ /\ Cardinality(rows) < MaxRecordNodes
     /\ WellNested(rows)
     /\ \E p \in rows, c \in CarriedParentIDs : CreateChildCarrying(p, c)
  \/ /\ WellNested(rows)
     /\ \E n \in rows, t \in rows, d \in Directions :
          WellFormedMove(rows, n, t) /\ Move(n, t, d)

SpecRecord == Init /\ [][NextRecord]_vars

\* moveAffected on any table of rows with lft < rgt, for any window, the
\* empty ones (gte > lte) included, and any step.
NextShift ==
  \E gte \in 0..(MaxCoord + 1), lte \in 0..(MaxCoord + 1),
     step \in (0 - MaxStep)..MaxStep : Shift(gte, lte, step)

SpecShift == InitShift /\ [][NextShift]_vars

(***************************************************************************)
(* Properties.                                                             *)
(***************************************************************************)

\* The row the last call created or moved, and the row it named as parent
\* or reference.
LastNode == Row(rows, last.node)
LastRef == Row(rows, last.ref)

\* C1: within each scope any two distinct rows have intervals that are
\* disjoint or strictly nested, never sharing a bound, and b's interval lies
\* inside a's exactly when b descends from a through parent_id.
C1_IntervalsNestByAncestry ==
  \A s \in Scopes : NestedIntervals(InScope(rows, s))

\* A Move has relocated a node that has a descendant, next to a row outside
\* its subtree.
C1_Witness ==
  /\ last.op = "Move"
  /\ \E b \in rows : Inside(b, LastNode) /\ IsDescendant(rows, b, LastNode)
  /\ \E c \in rows : Disjoint(c, LastNode)
  /\ \E a \in rows : Inside(LastNode, a)

\* C2: every row has rgt - lft = 2 * (number of its descendants) + 1.
C2_WidthCountsDescendants ==
  \A s \in Scopes : WidthCountsDescendants(InScope(rows, s))

\* A Create under a parent that itself has a parent, with a row to the right
\* of the gap it opened.
C2_Witness ==
  /\ last.op = "Create"
  /\ last.ref # NULL
  /\ LastNode.depth = 2
  /\ \E r \in rows : r.lft > LastNode.rgt

\* C3: each row with a parent_id is one deeper than its parent, each row
\* without one has depth 0, and a Move changes the depth of every descendant
\* of the moved row by the amount it changes the depth of the moved row.
C3_DepthFollowsParent ==
  [][/\ \A s \in Scopes : DepthFollowsParent(InScope(rows', s))
     /\ last'.op = "Move" =>
          LET n == Row(rows, last'.node)
              change == Row(rows', n.id).depth - n.depth
          IN \A d \in Descendants(rows, n) :
               Row(rows', d.id).depth = d.depth + change]_vars

\* A Move as first child has placed a row with a descendant under a reference
\* that is not a root.
C3_Witness ==
  /\ last.op = "Move"
  /\ last.dir = MoveDirectionInner
  /\ LastNode.depth = 2
  /\ \E d \in rows : d.parent_id = LastNode.id /\ d.depth = 3

\* C4: children_count of every row is the number of rows whose parent_id is
\* its id.
C4_ChildrenCounted ==
  \A s \in Scopes : ChildrenCounted(InScope(rows, s))

\* A Move has made its node the sibling of a reference under a parent that
\* now counts two children or more, while some root has none.
C4_Witness ==
  /\ last.op = "Move"
  /\ last.dir # MoveDirectionInner
  /\ LastNode.parent_id # NULL
  /\ Row(rows, LastNode.parent_id).children_count >= 2
  /\ \E r \in rows : r.children_count = 0 /\ r.depth = 0

\* C5: every row has lft < rgt after any calls, a Move onto the node itself
\* or into its subtree included.
C5_LeftBeforeRight == \A r \in rows : r.lft < r.rgt

C7_CreateUnderParent ==
  [][(/\ last'.op = "Create"
      /\ last'.ref # NULL
      /\ WellNested(InScope(rows, Row(rows, last'.ref).scope))) =>
       LET parent == Row(rows, last'.ref)
           new == Row(rows', last'.node)
           pr == parent.rgt
       IN /\ new.lft = pr /\ new.rgt = pr + 1 /\ new.depth = parent.depth + 1
          /\ new.scope = parent.scope
          /\ ~(\E r \in rows : r.id = new.id)
          /\ {r.id : r \in rows'} = {r.id : r \in rows} \cup {new.id}
          /\ \A r \in rows :
               LET r2 == Row(rows', r.id)
               IN IF r.scope = parent.scope
                  THEN /\ r2.rgt = IF r.rgt >= pr THEN r.rgt + 2 ELSE r.rgt
                       /\ r2.lft = IF r.lft > pr THEN r.lft + 2 ELSE r.lft
                       /\ r2.depth = r.depth
                       /\ r2.parent_id = r.parent_id
                       /\ r2.scope = r.scope
                       /\ r2.children_count =
                            IF r.id = parent.id THEN r.children_count + 1
                            ELSE r.children_count
                  ELSE r2 = r]_vars

\* A Create under a parent while a row of the other scope has its rgt at or
\* beyond the gap.
C7_Witness ==
  /\ last.op = "Create"
  /\ last.ref # NULL
  /\ LastRef.rgt = LastNode.rgt + 1
  /\ \E x \in rows : x.scope # LastNode.scope /\ x.rgt >= LastNode.lft

\* C8: Create without a parent stores a root of depth 0 with rgt = lft + 1
\* and lft = 1 in an empty scope, else one more than the largest rgt of the
\* rows of that scope; it changes no existing row.
C8_CreateRoot ==
  [][(last'.op = "Create" /\ last'.ref = NULL) =>
       \E new \in rows' :
          /\ new.id = last'.node
          /\ rows' = rows \cup {new}
          /\ new \notin rows
          /\ new.depth = 0
          /\ new.parent_id = NULL
          /\ new.rgt = new.lft + 1
          /\ LET sc == InScope(rows, new.scope)
             IN new.lft = IF sc = {} THEN 1
                          ELSE Max({r.rgt : r \in sc}) + 1]_vars

\* A root was created in a scope without rows while the other scope holds a
\* row whose rgt is larger than the new row's.
C8_Witness ==
  /\ last.op = "Create"
  /\ last.ref = NULL
  /\ LastNode.lft = 1
  /\ \E x \in rows : x.scope # LastNode.scope /\ x.rgt > LastNode.rgt

\* C9: repeating the last Move with the same node, reference and direction,
\* the records carrying the coordinates now stored, changes no row.
C9_MoveIdempotent ==
  last.op = "Move" => MoveTo(rows, LastNode, LastRef, last.dir) = rows

\* A Move before a reference: the repeated call finds moveStep > 0.
C9_Witness ==
  /\ last.op = "Move"
  /\ last.dir = MoveDirectionLeft
  /\ LastRef.lft - 1 - LastNode.lft + 1 > 0
  /\ LastNode.children_count >= 1

\* C10: a Move of a node of one scope changes no row of another scope.
C10_MoveConfinedToScope ==
  [][last'.op = "Move" =>
       \A r \in rows :
         r.scope # Row(rows, last'.node).scope => r \in rows']_vars

\* C11: when a write of Create or a step of MoveTo fails (the rgt shift, the
\* lft shift, the children_count update, the insert, the subtree id read, the
\* affected-range shift, the subtree shift, the reparent write, a count
\* resync), the call returns an error and every row is as before the call.
C11_FailureRollsBack ==
  [][/\ (last'.fault # "none" /\ last'.fault # "maxRgt") => last'.err
     /\ last'.err => rows' = rows]_vars

\* A MoveTo has failed at its count resync of the new parent, after the
\* shifts and the reparent write.
C11_Witness ==
  /\ last.op = "Move"
  /\ last.fault = "syncNew"
  /\ last.err
  /\ Cardinality(rows) >= 3

\* C12: every failure of the store inside Create or MoveTo, the read of the
\* largest rgt of a root Create included, is returned as an error and no row
\* is written.
C12_FailurePropagates ==
  [][last'.fault # "none" => (last'.err /\ rows' = rows)]_vars

\* The record the store holds now for the row a caller's record names.
Fresh(record) == Row(rows, record.id)

\* The held call with every record read again from the table.
FreshCall ==
  IF held.op = "Create"
  THEN [held EXCEPT !.parent = Fresh(held.parent)]
  ELSE [held EXCEPT !.node = Fresh(held.node), !.to = Fresh(held.to)]

\* C13: Create and MoveTo compute positions from coordinates read again from
\* the table: a call run with records loaded earlier leaves the table that the
\* same call leaves when run with the records as stored now.
C13_PositionsFromStorage ==
  [][(held # NoCall /\ held' = NoCall) => rows' = HeldResult(rows, FreshCall)]_vars

\* C14: with every call one serialized transaction, the nested-set invariants
\* hold in every state reached by two callers on one scope, also when the
\* second caller loaded its records before the first caller's call committed.
C14_SerializedCallersWellNested ==
  WellNested(rows)

\* C15: the row a Create stores has the parent's id as parent_id, and none
\* after a Create without parent, whatever parent_id the caller's record
\* carried; the parent's children_count is then the number of rows whose
\* parent_id is its id.
C15_CreateStoresParent ==
  last.op = "Create" =>
    /\ LastNode.parent_id = last.ref
    /\ last.ref # NULL =>
         LastRef.children_count =
           Cardinality({r \in rows : r.parent_id = last.ref})

\* The RangeShifter contract: lft gets step iff lft is in [lo, hi] and,
\* independently, rgt gets step iff rgt is in [lo, hi].
RangeShifter(table, lo, hi, step) ==
  {[r EXCEPT !.lft = IF lo <= r.lft /\ r.lft <= hi THEN r.lft + step ELSE r.lft,
             !.rgt = IF lo <= r.rgt /\ r.rgt <= hi THEN r.rgt + step ELSE r.rgt]
     : r \in table}

\* C16: on every table of rows with lft < rgt, for every window, an empty
\* one included, and every step, moveAffected leaves exactly the table the
\* RangeShifter contract describes; rows with no bound in the window are
\* unchanged.
C16_MoveAffectedIsRangeShifter ==
  last.op = "Shift" =>
    /\ rows = RangeShifter(last.before, last.gte, last.lte, last.step)
    /\ \A r \in last.before :
         (/\ ~(last.gte <= r.lft /\ r.lft <= last.lte)
          /\ ~(last.gte <= r.rgt /\ r.rgt <= last.lte)) => r \in rows

\* A shift by a non-zero step was applied to a table with a row that
\* straddles the window's lower end (only its rgt inside) and a row wholly
\* inside the window.
C16_Witness ==
  /\ last.op = "Shift"
  /\ last.step # 0
  /\ \E r \in last.before :
       r.lft < last.gte /\ last.gte <= r.rgt /\ r.rgt <= last.lte
  /\ \E r \in last.before :
       last.gte <= r.lft /\ r.rgt <= last.lte

\* What C17 says of one Move: n and to are the stored rows of node and
\* reference before the call, n2 the stored row of the node after it, lo and
\* hi the ends of the window between the old and the new place.
RigidAndFramed(before, after, n, n2, newParentID, lo, hi) ==
  /\ {r.id : r \in after} = {r.id : r \in before}
  /\ \A r \in before : \E r2 \in after :
       /\ r2.id = r.id
       /\ r2.scope = r.scope
       /\ IF r.lft >= n.lft /\ r.rgt <= n.rgt
          THEN /\ r2.lft = r.lft + (n2.lft - n.lft)
               /\ r2.rgt = r.rgt + (n2.lft - n.lft)
               /\ r2.depth = r.depth + (n2.depth - n.depth)
          ELSE /\ r2.depth = r.depth
               /\ ((r.lft < lo \/ r.lft > hi) /\ (r.rgt < lo \/ r.rgt > hi)) =>
                    (r2.lft = r.lft /\ r2.rgt = r.rgt)
       /\ r.id # n.id => r2.parent_id = r.parent_id
       /\ (r.id # n.parent_id /\ r.id # newParentID) =>
            r2.children_count = r.children_count

\* C17: a well-formed Move adds one offset to lft and rgt and one change to
\* depth of every row whose interval was inside the node's; writes parent_id
\* on the node only; leaves depth and parent_id of every other row, and both
\* bounds of a row that has neither bound in the window between the old and the
\* new place; and changes children_count on the old and new parent at most.
C17_MoveRigidAndFramed ==
  [][last'.op = "Move" =>
       \E n \in rows, to \in rows, n2 \in rows' :
         /\ n.id = last'.node
         /\ to.id = last'.ref
         /\ n2.id = n.id
         /\ \E position \in {moveArgs(n, to, last'.dir).position} :
              RigidAndFramed(rows, rows', n, n2,
                IF last'.dir = MoveDirectionInner THEN to.id ELSE to.parent_id,
                IF position + 1 < n.lft THEN position + 1 ELSE n.lft,
                IF position > n.rgt THEN position ELSE n.rgt)]_vars

\* A Move has relocated a node that has a child and a parent, in a table of
\* four rows with a row outside the node's subtree that is not its ancestor.
C17_Witness ==
  /\ last.op = "Move"
  /\ Cardinality(rows) = 4
  /\ LastNode.parent_id # NULL
  /\ \E c \in rows : c.parent_id = LastNode.id
  /\ \E d \in rows : Disjoint(d, LastNode)

\* C18: in every table reached by well-formed calls, for every node, every
\* reference (the node itself included) and every direction whose position
\* gives moveStep = position - node.lft + 1 = 0, the computed newParentID is
\* the node's parent_id and depthChange is 0, and the call leaves the table as
\* it is.
C18_EarlyReturnSkipsNothing ==
  \A n \in rows, to \in rows, d \in Directions :
    \A a \in {moveArgs(n, to, d)} :
      a.position - n.lft + 1 = 0 =>
        /\ a.newParentID = n.parent_id
        /\ a.depthChange = 0
        /\ MoveTo(rows, n, to, d) = rows

\* A Move as first child whose node is already the first child of the
\* reference, itself not a root, while the node has a child of its own.
C18_Witness ==
  /\ last.op = "Move"
  /\ last.dir = MoveDirectionInner
  /\ moveArgs(LastNode, LastRef, last.dir).position - LastNode.lft + 1 = 0
  /\ LastRef.parent_id # NULL
  /\ LastNode.children_count >= 1

\* C19: after a Move with any node and reference of one scope, the node
\* itself and the rows of its subtree included, no row is its own parent or
\* ancestor and no two rows share a lft or a rgt.
C19_MoveKeepsTreeAcyclic ==
  last.op = "Move" =>
    /\ \A r \in rows : ~OnCycle(rows, r.id)
    /\ \A a \in rows, b \in rows :
         a.id # b.id => (a.lft # b.lft /\ a.rgt # b.rgt)

\* C20: after any sequence of well-formed calls on a scope that started
\* empty, the lft and rgt values of its N rows are pairwise distinct and are
\* together exactly 1..2N.
C20_BoundsContiguous ==
  \A s \in OneScope :
    \A t \in {InScope(rows, s)} :
      /\ {r.lft : r \in t} \cup {r.rgt : r \in t} = 1..(2 * Cardinality(t))
      /\ {r.lft : r \in t} \cap {r.rgt : r \in t} = {}
      /\ Cardinality({r.lft : r \in t}) = Cardinality(t)
      /\ Cardinality({r.rgt : r \in t}) = Cardinality(t)

\* A Move to the right has carried a node with a child over a row, in a table
\* of four rows: a gap was vacated and another filled.
C20_Witness ==
  /\ last.op = "Move"
  /\ last.dir = MoveDirectionRight
  /\ Cardinality(rows) = 4
  /\ LastNode.rgt - LastNode.lft = 3
  /\ LastRef.rgt = LastNode.lft - 1

====
